---- MODULE Spec2Model ----
(***************************************************************************)
(* A model of src/pcr_mood.py: the Dash callback update_output (the Go /   *)
(* Reset handler), the helper get_recent_options (recency-filtered option  *)
(* chain aggregation) and the put/call ratio computed from its result, for *)
(* the selected ticker and for the four fixed subplot tickers.             *)
(*                                                                         *)
(* The callback is modelled step by step: every call to the external data  *)
(* source (history, the expiration list, one option chain) is one step, so *)
(* that the order and the timing of the fetches can be stated.  The data   *)
(* source is the variable `source`, fixed during a run: what each of the   *)
(* five Ticker objects of one callback answers.                            *)
(***************************************************************************)
EXTENDS Integers, Sequences, FiniteSets, TLC

\* ------------------------------------------------------------- bounds
MaxStrLen == 2      \* longest text typed into the ticker field
MaxExp == 2         \* most expirations a ticker lists (aggregation runs)
MaxRows == 2        \* most rows the source serves for one ticker (aggregation runs)
MaxTick == 1        \* how far the clock advances during one run
MaxVol == 2         \* largest volume of one row (ratio runs)
MaxLen == 2         \* most rows of one combined table (ratio runs)

\* ------------------------------------------------- program constants
Hours == 96         \* get_recent_options(ticker_obj, hours=96)
Now0 == Hours + 2   \* the clock (in hours) when a run starts

subplot_tickers == <<"AMZN", "AAPL", "NVDA", "TSLA">>
NumSub == Len(subplot_tickers)
month_options == {6, 12, 18, 24, 30}

\* ------------------------------------------------------ python values
\* An optional value: None is the empty tuple, a value v is <<v>>.
None == <<>>
Some(v) == <<v>>

\* Text is a tuple of one-character strings.
Chars == {"a", "A", " "}
Upper(c) == IF c = "a" THEN "A" ELSE c
StrUpper(s) == [j \in DOMAIN s |-> Upper(s[j])]

RECURSIVE LStrip(_)
LStrip(s) == IF s # <<>> /\ Head(s) = " " THEN LStrip(Tail(s)) ELSE s
RECURSIVE RStrip(_)
RStrip(s) ==
  IF s # <<>> /\ s[Len(s)] = " " THEN RStrip(SubSeq(s, 1, Len(s) - 1)) ELSE s
Strip(s) == RStrip(LStrip(s))
\* s.strip().upper()
Normalise(s) == StrUpper(Strip(s))

\* Truthiness of a text and of an optional text ("" and None are falsy).
TruthyStr(s) == s # <<>>
TruthyOpt(o) == o # None /\ o[1] # <<>>

\* ------------------------------------------------------- data frames
AllColumns == {"lastTradeDate", "volume", "openInterest"}
\* pd.DataFrame(): no columns, no rows.
EmptyDataFrame == [columns |-> {}, rows |-> <<>>]
Table(rows) == [columns |-> AllColumns, rows |-> rows]
\* A malformed response: the trade-timestamp column is missing.
NoDateTable == [columns |-> {"volume", "openInterest"}, rows |-> <<>>]
IsEmptyDF(df) == df.rows = <<>>

\* A raw lastTradeDate is a timestamp ("ts"), a parseable date text ("str"),
\* a text that is no date ("garbage") or missing ("null").
NaT == [kind |-> "NaT", t |-> 0]
Ts(t) == [kind |-> "ts", t |-> t]
\* pd.to_datetime(value, errors='coerce')
to_datetime(raw) ==
  IF raw.kind \in {"ts", "str"} THEN [kind |-> "ts", t |-> raw.t] ELSE NaT
\* df['lastTradeDate'] = pd.to_datetime(df['lastTradeDate'], errors='coerce')
ConvertColumn(df) ==
  [df EXCEPT !.rows =
     [j \in DOMAIN df.rows |->
        [df.rows[j] EXCEPT !.lastTradeDate = to_datetime(@)]]]

\* A plausible slip: the comparison admits the cutoff instant itself.
AfterOrAt(d, c) == d.kind = "ts" /\ d.t >= c
\* value > cutoff on a datetime column; NaT compares False.
After(d, c) == d.kind = "ts" /\ d.t > c
\* df[df['lastTradeDate'] > cutoff]
FilterRecent(df, c) ==
  [df EXCEPT !.rows = SelectSeq(@, LAMBDA r : After(r.lastTradeDate, c))]

\* A volume is absent (NaN) or a number.
NaN == [null |-> TRUE, v |-> 0]
Vol(n) == [null |-> FALSE, v |-> n]
RECURSIVE SumVolumeRows(_)
SumVolumeRows(rows) ==
  IF rows = <<>> THEN 0
  ELSE (IF Head(rows).volume.null THEN 0 ELSE Head(rows).volume.v)
       + SumVolumeRows(Tail(rows))
\* df['volume'].sum(): NaN is skipped.
SumVolume(df) == SumVolumeRows(df.rows)

RECURSIVE ConcatRows(_)
ConcatRows(list) ==
  IF list = <<>> THEN <<>> ELSE Head(list).rows \o ConcatRows(Tail(list))
\* pd.concat(list) if list else pd.DataFrame()
Concat(list) ==
  IF list # <<>>
  THEN [columns |-> UNION {list[j].columns : j \in DOMAIN list},
        rows |-> ConcatRows(list)]
  ELSE EmptyDataFrame

\* ---------------------------------------------- one loop iteration
\* The body of `for expiry in ticker_obj.options` for one expiry whose
\* chain the source answers with res: the lists after it, and whether the
\* except branch printed an error.
Failed(cl, pl) == [calls_list |-> cl, puts_list |-> pl, error |-> TRUE]

\* A plausible slip: the calls are appended before the puts are looked at.
ProcessExpiryEager(res, c, cl, pl) ==
  IF res.raises THEN Failed(cl, pl)
  ELSE IF "lastTradeDate" \notin res.calls.columns THEN Failed(cl, pl)
  ELSE LET calls_recent == FilterRecent(ConvertColumn(res.calls), c)
           cl2 == IF ~IsEmptyDF(calls_recent) THEN Append(cl, calls_recent) ELSE cl
       IN IF "lastTradeDate" \notin res.puts.columns THEN Failed(cl2, pl)
          ELSE LET puts_recent == FilterRecent(ConvertColumn(res.puts), c)
               IN [calls_list |-> cl2,
                   puts_list |-> IF ~IsEmptyDF(puts_recent)
                                 THEN Append(pl, puts_recent) ELSE pl,
                   error |-> FALSE]

ProcessExpiry(res, c, cl, pl) ==
  IF res.raises THEN Failed(cl, pl)                                    \* line 46
  ELSE IF "lastTradeDate" \notin res.calls.columns THEN Failed(cl, pl) \* line 50
  ELSE IF "lastTradeDate" \notin res.puts.columns THEN Failed(cl, pl)  \* line 51
  ELSE LET calls_recent == FilterRecent(ConvertColumn(res.calls), c)
           puts_recent == FilterRecent(ConvertColumn(res.puts), c)
       IN [calls_list |-> IF ~IsEmptyDF(calls_recent)
                          THEN Append(cl, calls_recent) ELSE cl,
           puts_list |-> IF ~IsEmptyDF(puts_recent)
                         THEN Append(pl, puts_recent) ELSE pl,
           error |-> FALSE]

\* ------------------------------------------------ the ratio section
\* What one ticker's PCR section leaves: the message shown, the two volume
\* totals (None when the section never assigned them) and pcr_vol (None
\* when it is None or unassigned, else the quotient as numerator and
\* denominator; the rendering to two decimals is not modelled).
Outcome(msg, tc, tp, ratio) ==
  [msg |-> msg, total_call_vol |-> tc, total_put_vol |-> tp, pcr_vol |-> ratio]
ErrorOutcome == Outcome("Error", None, None, None)

Ratio(tc, tp) == IF tc # 0 THEN Some([num |-> tp, den |-> tc]) ELSE None

\* A plausible slip: the both-empty test is left out.
ComputePCRUnguarded(calls, puts) ==
  IF "openInterest" \notin calls.columns THEN ErrorOutcome
  ELSE IF "openInterest" \notin puts.columns THEN ErrorOutcome
  ELSE IF "volume" \notin calls.columns THEN ErrorOutcome
  ELSE IF "volume" \notin puts.columns THEN ErrorOutcome
  ELSE LET tc == SumVolume(calls)
           tp == SumVolume(puts)
       IN Outcome(IF tc # 0 THEN "PCR" ELSE "NA", Some(tc), Some(tp), Ratio(tc, tp))

\* Lines 205-222 and 253-272: a column read of a frame that lacks the
\* column raises KeyError, which the enclosing except reports.
ComputePCR(calls, puts) ==
  IF IsEmptyDF(calls) /\ IsEmptyDF(puts)
  THEN Outcome("NoRecent", None, None, None)
  ELSE IF "openInterest" \notin calls.columns THEN ErrorOutcome
  ELSE IF "openInterest" \notin puts.columns THEN ErrorOutcome
  ELSE IF "volume" \notin calls.columns THEN ErrorOutcome
  ELSE IF "volume" \notin puts.columns THEN ErrorOutcome
  ELSE LET tc == SumVolume(calls)
           tp == SumVolume(puts)
       IN Outcome(IF tc # 0 THEN "PCR" ELSE "NA", Some(tc), Some(tp), Ratio(tc, tp))

\* ------------------------------------------------- input validation
\* A plausible slip: the month check is left out.
ValidateNoMonths(ti, td, m) ==
  IF ~TruthyStr(ti) /\ ~TruthyOpt(td) THEN "no_ticker"
  ELSE IF TruthyStr(ti) /\ TruthyOpt(td) /\ Normalise(ti) # Normalise(td[1])
  THEN "mismatch"
  ELSE ""

\* Lines 146-159: the error the Go branch returns, "" when the inputs pass.
Validate(ti, td, m) ==
  IF ~TruthyStr(ti) /\ ~TruthyOpt(td) THEN "no_ticker"
  ELSE IF TruthyStr(ti) /\ TruthyOpt(td) /\ Normalise(ti) # Normalise(td[1])
  THEN "mismatch"
  ELSE IF m = None THEN "no_months"
  ELSE ""

\* Line 162.
ResolveTicker(ti, td) == IF TruthyOpt(td) THEN Normalise(td[1]) ELSE Normalise(ti)


\* ------------------------------------------------------------- state
VARIABLES
  ticker_input,      \* dcc.Input "ticker-input": a text
  ticker_dropdown,   \* dcc.Dropdown "ticker-dropdown": None or a text
  months_selected,   \* dcc.Dropdown "months-dropdown": None or a number
  error_message,     \* html.Div "error-message": "" or the error shown
  main_content,      \* html.Div "main-content": None ("") or the content
  ctx,               \* callback_context and the State values of the call
  pc,                \* where the callback is
  ticker,            \* the resolved ticker
  i,                 \* 0: the selected ticker; 1..4: index into subplot_tickers
  cutoff,            \* get_recent_options: cutoff
  calls_list,        \* get_recent_options: calls_list
  puts_list,         \* get_recent_options: puts_list
  k,                 \* get_recent_options: position in ticker_obj.options
  calls_combined,    \* what get_recent_options returned: calls
  puts_combined,     \* what get_recent_options returned: puts
  pcr_info,          \* the selected ticker's message
  subplot_pcr_info,  \* the subplot tickers' messages
  source,            \* what Yahoo Finance answers each Ticker object
  clock,             \* pd.Timestamp.now(), in hours
  fetchLog,          \* the calls this callback run made to the source
  printed,           \* the expiries whose except branch printed an error
  abort_requested    \* whether the caller has asked to abort the batch

ui == <<ticker_input, ticker_dropdown, months_selected>>
outputs == <<error_message, main_content>>
agg == <<cutoff, calls_list, puts_list, k, calls_combined, puts_combined>>
infos == <<pcr_info, subplot_pcr_info>>
env == <<source, clock, abort_requested>>
obs == <<fetchLog, printed>>
vars == <<ui, outputs, ctx, pc, ticker, i, agg, infos, env, obs>>

Fetch(t, op, e) == [i |-> t, op |-> op, expiry |-> e]
NoCtx == [triggered |-> "", ticker_input |-> <<>>, ticker_dropdown |-> None,
          months_selected |-> None]

\* ----------------------------------------------------- input sets
RECURSIVE SeqsUpTo(_, _)
SeqsUpTo(S, n) ==
  IF n = 0 THEN {<<>>}
  ELSE LET P == SeqsUpTo(S, n - 1)
       IN P \cup {Append(s, x) : s \in {q \in P : Len(q) = n - 1}, x \in S}

InputStrings == SeqsUpTo(Chars, MaxStrLen)
\* dropdown_options: the scraped symbols, or '' when the scrape failed.
DropdownValues == {<<>>, <<"A">>}

RecentRow == [lastTradeDate |-> Ts(Now0 - Hours + 1), volume |-> Vol(1)]
OldRow == [lastTradeDate |-> Ts(Now0 - Hours - 1), volume |-> Vol(1)]
Chain(c, p) == [raises |-> FALSE, calls |-> Table(c), puts |-> Table(p)]
ChainRaises == [raises |-> TRUE, calls |-> EmptyDataFrame, puts |-> EmptyDataFrame]
\* What the source answers one Ticker object: its history ("raise", "empty"
\* or "ok"), whether asking for the expiration list raises, the expiration
\* list, and the answer to option_chain for each expiration asked so far.
TickerData(h, o, ch) ==
  [history |-> h, options_raises |-> o, options |-> [j \in 1..Len(ch) |-> j],
   chain |-> ch]

Down == TickerData("raise", FALSE, <<>>)
Unknown == TickerData("empty", FALSE, <<>>)
OptFail == TickerData("ok", TRUE, <<>>)
Quiet == TickerData("ok", FALSE, <<>>)
AllFail == TickerData("ok", FALSE, <<ChainRaises>>)
PutsOnly == TickerData("ok", FALSE, <<Chain(<<OldRow>>, <<RecentRow>>)>>)
Active == TickerData("ok", FALSE, <<Chain(<<RecentRow>>, <<RecentRow>>)>>)

\* The answers the callback runs are checked against.
UITickers == {Down, Unknown, Active}
BatchTickers == {Down, OptFail, Quiet, AllFail, PutsOnly, Active}

\* --------------------------------------------------------- actions
ResetLocals ==
  /\ ticker' = <<>> /\ i' = 0
  /\ cutoff' = 0 /\ calls_list' = <<>> /\ puts_list' = <<>> /\ k' = 0
  /\ calls_combined' = EmptyDataFrame /\ puts_combined' = EmptyDataFrame
  /\ pcr_info' = <<>> /\ subplot_pcr_info' = <<>>

\* The user edits a field while no callback runs.
TypeTicker ==
  /\ pc = "idle"
  /\ \E s \in InputStrings : ticker_input' = s
  /\ ctx' = NoCtx
  /\ UNCHANGED <<ticker_dropdown, months_selected, outputs, pc, ticker, i, agg,
                 infos, env, obs>>

SelectTicker ==
  /\ pc = "idle"
  /\ \E d \in {None} \cup {Some(s) : s \in DropdownValues} : ticker_dropdown' = d
  /\ ctx' = NoCtx
  /\ UNCHANGED <<ticker_input, months_selected, outputs, pc, ticker, i, agg,
                 infos, env, obs>>

SelectMonths ==
  /\ pc = "idle"
  /\ \E m \in {None} \cup {Some(n) : n \in month_options} : months_selected' = m
  /\ ctx' = NoCtx
  /\ UNCHANGED <<ticker_input, ticker_dropdown, outputs, pc, ticker, i, agg,
                 infos, env, obs>>

\* Lines 134-135: the callback fires with nothing triggered.
NoTrigger ==
  /\ pc = "idle"
  /\ ctx.triggered = ""
  /\ UNCHANGED vars

\* Lines 140-141.
Reset ==
  /\ pc = "idle"
  /\ ctx' = [triggered |-> "reset-button", ticker_input |-> ticker_input,
             ticker_dropdown |-> ticker_dropdown,
             months_selected |-> months_selected]
  /\ error_message' = "" /\ main_content' = None
  /\ ticker_input' = <<>> /\ ticker_dropdown' = None /\ months_selected' = None
  /\ fetchLog' = <<>> /\ printed' = <<>>
  /\ UNCHANGED <<pc, ticker, i, agg, infos, env>>

\* Lines 143-162: the Go branch up to the first fetch.
Go ==
  /\ pc = "idle"
  /\ ctx' = [triggered |-> "go-button", ticker_input |-> ticker_input,
             ticker_dropdown |-> ticker_dropdown,
             months_selected |-> months_selected]
  /\ fetchLog' = <<>> /\ printed' = <<>>
  /\ LET err == Validate(ticker_input, ticker_dropdown, months_selected)
     IN IF err # ""
        THEN /\ error_message' = err /\ main_content' = None
             /\ UNCHANGED <<pc, ticker>>
        ELSE /\ pc' = "history"
             /\ ticker' = ResolveTicker(ticker_input, ticker_dropdown)
             /\ UNCHANGED outputs
  /\ UNCHANGED <<ui, i, agg, infos, env>>

\* Lines 165-177: the selected ticker's history.
History ==
  /\ pc = "history"
  /\ fetchLog' = Append(fetchLog, Fetch(0, "history", 0))
  /\ IF source[0].history = "ok"
     THEN /\ pc' = "options"
          /\ UNCHANGED <<outputs, ticker, i, agg, infos>>
     ELSE /\ error_message' =
               (IF source[0].history = "raise" THEN "fetch_error" ELSE "no_history")
          /\ main_content' = None
          /\ pc' = "idle"
          /\ ResetLocals
  /\ UNCHANGED <<ui, ctx, env, printed>>

\* The section's message is appended (lines 206, 220, 222; 254, 268, 272)
\* and control moves to the next subplot ticker (lines 231, 275-279).
Finish(o) ==
  /\ IF i = 0
     THEN pcr_info' = <<o>> /\ UNCHANGED subplot_pcr_info
     ELSE /\ subplot_pcr_info' =
               Append(subplot_pcr_info,
                      [ticker |-> subplot_tickers[i], msg |-> o.msg,
                       total_call_vol |-> o.total_call_vol,
                       total_put_vol |-> o.total_put_vol, pcr_vol |-> o.pcr_vol])
          /\ UNCHANGED pcr_info
  /\ IF i < NumSub
     THEN pc' = "sub_history" /\ i' = i + 1
     ELSE pc' = "return" /\ i' = i

\* Lines 232-249: a subplot ticker's history.
SubHistory ==
  /\ pc = "sub_history"
  /\ fetchLog' = Append(fetchLog, Fetch(i, "history", 0))
  /\ IF source[i].history = "raise"
     THEN Finish(ErrorOutcome)
     ELSE pc' = "options" /\ UNCHANGED <<i, infos>>
  /\ UNCHANGED <<ui, outputs, ctx, ticker, agg, env, printed>>

\* Lines 204 and 252 entering get_recent_options, lines 40-44: the cutoff
\* is taken and the expiration list is asked for; a failure of that request
\* leaves the function and is caught by the caller.
Options ==
  /\ pc = "options"
  /\ cutoff' = clock - Hours
  /\ calls_list' = <<>> /\ puts_list' = <<>>
  /\ fetchLog' = Append(fetchLog, Fetch(i, "options", 0))
  /\ IF source[i].options_raises
     THEN Finish(ErrorOutcome) /\ k' = 0
     ELSE pc' = "expiry" /\ k' = 1 /\ UNCHANGED <<i, infos>>
  /\ UNCHANGED <<ui, outputs, ctx, ticker, calls_combined, puts_combined, env,
                 printed>>

\* Lines 44-60: one iteration of the loop over the expirations.
Expiry ==
  /\ pc = "expiry"
  /\ k <= Len(source[i].options)
  /\ k <= Len(source[i].chain)
  /\ fetchLog' = Append(fetchLog, Fetch(i, "option_chain", k))
  /\ LET r == ProcessExpiry(source[i].chain[k], cutoff, calls_list, puts_list)
     IN /\ calls_list' = r.calls_list
        /\ puts_list' = r.puts_list
        /\ printed' = IF r.error THEN Append(printed, <<i, k>>) ELSE printed
  /\ k' = k + 1
  /\ UNCHANGED <<ui, outputs, ctx, pc, ticker, i, cutoff, calls_combined,
                 puts_combined, infos, env>>

\* Lines 61-63: the loop is over; the lists are concatenated and returned.
ConcatReturn ==
  /\ pc = "expiry"
  /\ k > Len(source[i].options)
  /\ calls_combined' = Concat(calls_list)
  /\ puts_combined' = Concat(puts_list)
  /\ calls_list' = <<>> /\ puts_list' = <<>> /\ k' = 0
  /\ pc' = "compute"
  /\ UNCHANGED <<ui, outputs, ctx, ticker, i, cutoff, infos, env, obs>>

\* Lines 205-222 and 253-279: the ratio and its message.
Compute ==
  /\ pc = "compute"
  /\ Finish(ComputePCR(calls_combined, puts_combined))
  /\ UNCHANGED <<ui, outputs, ctx, ticker, agg, env, obs>>

\* Lines 281-311.
Return ==
  /\ pc = "return"
  /\ error_message' = ""
  /\ main_content' = Some([pcr_info |-> pcr_info,
                           subplot_pcr_info |-> subplot_pcr_info])
  /\ pc' = "idle"
  /\ ResetLocals
  /\ UNCHANGED <<ui, ctx, env, obs>>

\* Time passes.
Tick ==
  /\ pc # "idle"
  /\ clock < Now0 + MaxTick
  /\ clock' = clock + 1
  /\ UNCHANGED <<ui, outputs, ctx, pc, ticker, i, agg, infos, source,
                 abort_requested, obs>>

\* The caller asks for the batch to be aborted.
RequestAbort ==
  /\ pc \notin {"idle", "return"}
  /\ ~abort_requested
  /\ abort_requested' = TRUE
  /\ UNCHANGED <<ui, outputs, ctx, pc, ticker, i, agg, infos, source, clock, obs>>

\* ------------------------------------------------- specifications
\* The page after construction (lines 70-116), with some answers of the source.
Init ==
  /\ ticker_input = <<>> /\ ticker_dropdown = None /\ months_selected = None
  /\ error_message = "" /\ main_content = None
  /\ ctx = NoCtx
  /\ pc = "idle"
  /\ ticker = <<>> /\ i = 0
  /\ cutoff = 0 /\ calls_list = <<>> /\ puts_list = <<>> /\ k = 0
  /\ calls_combined = EmptyDataFrame /\ puts_combined = EmptyDataFrame
  /\ pcr_info = <<>> /\ subplot_pcr_info = <<>>
  /\ \E m \in UITickers :
       source = [t \in 0..NumSub |->
                   IF t = 0 THEN m
                   ELSE IF t = 1 THEN Active
                   ELSE IF t = 2 THEN Down
                   ELSE IF t = 3 THEN Quiet ELSE PutsOnly]
  /\ clock = Now0
  /\ fetchLog = <<>> /\ printed = <<>>
  /\ abort_requested = FALSE

Next ==
  \/ TypeTicker \/ SelectTicker \/ SelectMonths \/ NoTrigger \/ Reset \/ Go
  \/ History \/ SubHistory \/ Options \/ Expiry \/ ConcatReturn \/ Compute
  \/ Return

Spec == Init /\ [][Next]_vars


\* ------------------------------------------ one ticker's aggregation
\* The raw trade dates the source serves: older than the cutoff, the cutoff
\* instant itself, later than it (a timestamp, a date text), and no date.
AggRawDates ==
  {Ts(Now0 - Hours - 1), Ts(Now0 - Hours), Ts(Now0 - Hours + 1),
   [kind |-> "str", t |-> Now0 - Hours + 2], [kind |-> "garbage", t |-> 0]}
AggRows == {[lastTradeDate |-> d, volume |-> Vol(1)] : d \in AggRawDates}

\* The row sequences of exactly n rows.
SeqsOfLen(S, n) == {q \in SeqsUpTo(S, n) : Len(q) = n}

\* The answers to one option_chain call that hold exactly n rows.
ChainResultsOf(n) ==
  (IF n = 0
   THEN {ChainRaises, [raises |-> FALSE, calls |-> NoDateTable, puts |-> Table(<<>>)]}
   ELSE {})
  \cup {[raises |-> FALSE, calls |-> Table(c), puts |-> NoDateTable] :
          c \in SeqsOfLen(AggRows, n)}
  \cup UNION {{Chain(c, p) : c \in SeqsOfLen(AggRows, m),
                             p \in SeqsOfLen(AggRows, n - m)} : m \in 0..n}

\* The answers to one option_chain call that hold at most b rows.
AnswersWithin(b) == UNION {ChainResultsOf(n) : n \in 0..b}

RowsOf(r) == Len(r.calls.rows) + Len(r.puts.rows)
RECURSIVE RowsServed(_)
RowsServed(ch) == IF ch = <<>> THEN 0 ELSE RowsOf(Head(ch)) + RowsServed(Tail(ch))

\* The source makes up its answer to the next option_chain call.
Answer ==
  /\ pc = "expiry"
  /\ k <= Len(source[i].options)
  /\ Len(source[i].chain) < k
  /\ \E r \in AnswersWithin(MaxRows - RowsServed(source[i].chain)) :
       source' = [source EXCEPT ![i].chain = Append(@, r)]
  /\ UNCHANGED <<ui, outputs, ctx, pc, ticker, i, agg, infos, clock,
                 abort_requested, obs>>

\* A ticker that lists n expirations, none of them asked for yet.
Listing(n) ==
  [history |-> "ok", options_raises |-> FALSE, options |-> [j \in 1..n |-> j],
   chain |-> <<>>]
AggTickers == {OptFail} \cup {Listing(n) : n \in 0..MaxExp}

\* The selected ticker's PCR section (lines 203-222) is about to start: the
\* inputs "A" and 6 months passed validation and the history came back.
RunStarts ==
  /\ ticker_input = <<"A">> /\ ticker_dropdown = None /\ months_selected = Some(6)
  /\ error_message = "" /\ main_content = None
  /\ ctx = [triggered |-> "go-button", ticker_input |-> <<"A">>,
            ticker_dropdown |-> None, months_selected |-> Some(6)]
  /\ pc = "options"
  /\ ticker = <<"A">> /\ i = 0
  /\ cutoff = 0 /\ calls_list = <<>> /\ puts_list = <<>> /\ k = 0
  /\ calls_combined = EmptyDataFrame /\ puts_combined = EmptyDataFrame
  /\ pcr_info = <<>> /\ subplot_pcr_info = <<>>
  /\ clock = Now0
  /\ fetchLog = <<Fetch(0, "history", 0)>> /\ printed = <<>>
  /\ abort_requested = FALSE

InitAgg ==
  /\ RunStarts
  /\ \E m \in AggTickers : source = [t \in 0..NumSub |-> IF t = 0 THEN m ELSE Quiet]

NextAgg == Options \/ Answer \/ Expiry \/ ConcatReturn \/ Compute \/ Tick

SpecAgg == InitAgg /\ [][NextAgg]_vars


\* ------------------------------------------------ the ratio alone
\* Recent rows of every volume: absent, zero, positive.
RatioRows ==
  {[lastTradeDate |-> Ts(Now0 - Hours + 1), volume |-> v] :
     v \in {NaN} \cup {Vol(n) : n \in 0..MaxVol}}

\* The selected ticker lists one expiration, whose rows are all recent.
InitRatio ==
  /\ RunStarts
  /\ \E c \in SeqsUpTo(RatioRows, MaxLen), p \in SeqsUpTo(RatioRows, MaxLen) :
       source = [t \in 0..NumSub |->
                   IF t = 0 THEN TickerData("ok", FALSE, <<Chain(c, p)>>) ELSE Quiet]

NextRatio == Options \/ Expiry \/ ConcatReturn \/ Compute

SpecRatio == InitRatio /\ [][NextRatio]_vars

\* ------------------------------------------ the four subplot tickers
\* Every assignment of answers to the four subplot tickers; the selected
\* ticker has no expirations.
InitBatch ==
  /\ RunStarts
  /\ \E f \in [1..NumSub -> BatchTickers] :
       source = [t \in 0..NumSub |-> IF t = 0 THEN Quiet ELSE f[t]]

NextBatch ==
  \/ SubHistory \/ Options \/ Expiry \/ ConcatReturn \/ Compute \/ Return
  \/ RequestAbort

SpecBatch == InitBatch /\ [][NextBatch]_vars


\* ---------------------------------------------------------- reference
\* What the claims are stated against, written from the source's answers.
Succeeds(res) ==
  /\ ~res.raises
  /\ "lastTradeDate" \in res.calls.columns
  /\ "lastTradeDate" \in res.puts.columns

\* A served row as it is kept: its trade date read as an instant, or NaT.
RefRow(r) ==
  [r EXCEPT !.lastTradeDate =
     IF @.kind \in {"garbage", "null", "NaT"} THEN NaT ELSE Ts(@.t)]
RefRows(rows) == [j \in DOMAIN rows |-> RefRow(rows[j])]
RefIsRecent(r, c) == r.lastTradeDate.kind = "ts" /\ r.lastTradeDate.t > c
RefRecent(rows, c) == SelectSeq(RefRows(rows), LAMBDA r : RefIsRecent(r, c))

\* The recent call (put) rows of the expirations 1..n of chain ch that
\* succeeded, in the order served.
RECURSIVE RefUnion(_, _, _, _)
RefUnion(ch, n, side, c) ==
  IF n = 0 THEN <<>>
  ELSE RefUnion(ch, n - 1, side, c) \o
       (IF Succeeds(ch[n])
        THEN RefRecent(IF side = "calls" THEN ch[n].calls.rows ELSE ch[n].puts.rows, c)
        ELSE <<>>)

\* Every row the expirations 1..n of chain ch served on one side, as kept.
RECURSIVE RefServed(_, _, _)
RefServed(ch, n, side) ==
  IF n = 0 THEN <<>>
  ELSE RefServed(ch, n - 1, side) \o
       (IF ch[n].raises THEN <<>>
        ELSE RefRows(IF side = "calls" THEN ch[n].calls.rows ELSE ch[n].puts.rows))

RECURSIVE IsSubseq(_, _)
IsSubseq(a, b) ==
  IF a = <<>> THEN TRUE
  ELSE IF b = <<>> THEN FALSE
  ELSE IF Head(a) = Head(b) THEN IsSubseq(Tail(a), Tail(b))
  ELSE IsSubseq(a, Tail(b))

Asked(t, op, e) == \E n \in DOMAIN fetchLog : fetchLog[n] = Fetch(t, op, e)
FailedExpiries(ch) == {j \in DOMAIN ch : ~Succeeds(ch[j])}

\* The aggregation of the selected ticker is inside its loop, about to
\* handle expiration k (or to leave the loop).
InLoop == pc = "expiry" /\ i = 0
\* get_recent_options has returned for the selected ticker.
Returned == pc = "compute" /\ i = 0
\* The selected ticker's section is over.
SectionDone == pcr_info # <<>>

\* ------------------------------------------------------------- C2
\* C2: Per-expiration failure tolerance.  Whatever expirations of a ticker
\* fail (the chain request raises, or a table lacks the trade-date column),
\* the loop still asks for every listed expiration, each failure is printed
\* and nothing more, and the lists hold at every point of the loop, and the
\* returned tables at its end, exactly the recent rows of the expirations
\* that succeeded so far: a failing expiration adds nothing and removes
\* nothing.
C2_FailureTolerance ==
  /\ InLoop =>
       /\ ConcatRows(calls_list) = RefUnion(source[0].chain, k - 1, "calls", cutoff)
       /\ ConcatRows(puts_list) = RefUnion(source[0].chain, k - 1, "puts", cutoff)
       /\ \A j \in 1..(k - 1) : Asked(0, "option_chain", j)
  /\ Returned =>
       LET ch == source[0].chain
       IN /\ Len(ch) = Len(source[0].options)
          /\ \A j \in DOMAIN ch : Asked(0, "option_chain", j)
          /\ calls_combined.rows = RefUnion(ch, Len(ch), "calls", cutoff)
          /\ puts_combined.rows = RefUnion(ch, Len(ch), "puts", cutoff)
          /\ {e[2] : e \in {printed[n] : n \in DOMAIN printed}} = FailedExpiries(ch)

\* Some but not all expirations failed, a failing one after rows had been
\* accumulated and itself serving a recent call row, and the aggregation
\* returned rows.
C2_Witness ==
  /\ Returned
  /\ LET ch == source[0].chain
     IN /\ Len(ch) >= 2
        /\ Succeeds(ch[1]) /\ RefRecent(ch[1].calls.rows, cutoff) # <<>>
        /\ ~Succeeds(ch[2]) /\ ~ch[2].raises
        /\ RefRecent(ch[2].calls.rows, cutoff) # <<>>
  /\ calls_combined.rows # <<>>

\* ------------------------------------------------------------- C6
RowsOfFrame(df) == {df.rows[m] : m \in DOMAIN df.rows}
RowsOfList(list) == UNION {RowsOfFrame(list[n]) : n \in DOMAIN list}
KeptRows ==
  RowsOfList(calls_list) \cup RowsOfList(puts_list)
  \cup RowsOfFrame(calls_combined) \cup RowsOfFrame(puts_combined)

\* C6: Recency invariant.  The cutoff is the clock at the start of the
\* aggregation minus the window and stays the same until the section is
\* over; every row in the lists and in the returned tables has a trade
\* instant strictly later than the cutoff (so none at the cutoff, older, or
\* without a readable date); such rows make no expiration fail; and the kept
\* rows are in the order served.
C6_Recency ==
  /\ [](\A r \in KeptRows :
          r.lastTradeDate.kind = "ts" /\ r.lastTradeDate.t > cutoff)
  /\ [][(pc = "options" /\ pc' # "options") => (cutoff' = clock - Hours)]_vars
  /\ [][(pc \in {"expiry", "compute"}) => UNCHANGED cutoff]_vars
  /\ [](\A n \in DOMAIN printed : ~Succeeds(source[printed[n][1]].chain[printed[n][2]]))
  /\ [](InLoop =>
          /\ IsSubseq(ConcatRows(calls_list), RefServed(source[0].chain, k - 1, "calls"))
          /\ IsSubseq(ConcatRows(puts_list), RefServed(source[0].chain, k - 1, "puts")))
  /\ [](Returned =>
          /\ IsSubseq(calls_combined.rows,
                      RefServed(source[0].chain, Len(source[0].chain), "calls"))
          /\ IsSubseq(puts_combined.rows,
                      RefServed(source[0].chain, Len(source[0].chain), "puts")))

\* The clock has moved on since the cutoff was taken, and an expiration that
\* served a row at the cutoff instant and a later row was aggregated.
C6_Witness ==
  /\ Returned
  /\ clock > cutoff + Hours
  /\ Len(source[0].chain) >= 1
  /\ source[0].chain[1].calls.rows =
       <<[lastTradeDate |-> Ts(cutoff), volume |-> Vol(1)],
         [lastTradeDate |-> Ts(cutoff + 1), volume |-> Vol(1)]>>
  /\ Len(calls_combined.rows) = 1

\* ------------------------------------------------------------- C5
AllExpiriesFail(td) ==
  /\ ~td.options_raises
  /\ Len(td.options) >= 1
  /\ Len(td.chain) = Len(td.options)
  /\ \A j \in DOMAIN td.chain : ~Succeeds(td.chain[j])

\* C5: Escalation when every expiration fails.  A ticker that lists at least
\* one expiration and whose every chain request fails ends with the error
\* message, not with the no-recent-activity message.
C5_Escalation ==
  (SectionDone /\ AllExpiriesFail(source[0])) => pcr_info[1].msg = "Error"

\* ------------------------------------------------------------- C8
NothingRecent(td, c) ==
  /\ ~td.options_raises
  /\ Len(td.chain) = Len(td.options)
  /\ \A j \in DOMAIN td.chain :
       /\ Succeeds(td.chain[j])
       /\ RefRecent(td.chain[j].calls.rows, c) = <<>>
       /\ RefRecent(td.chain[j].puts.rows, c) = <<>>

\* C8: No recent activity is not an error.  A ticker with no listed
\* expiration, or whose expirations all succeed without a row inside the
\* window, aggregates to two empty tables, and its section ends with the
\* no-recent-activity message: no totals, no ratio, not the error message
\* and not a number.
C8_NoRecentActivity ==
  /\ (Returned /\ NothingRecent(source[0], cutoff)) =>
       IsEmptyDF(calls_combined) /\ IsEmptyDF(puts_combined)
  /\ (SectionDone /\ NothingRecent(source[0], cutoff)) =>
       pcr_info[1] = Outcome("NoRecent", None, None, None)

\* The section ended for a ticker whose one expiration served rows, all of
\* them outside the window.
C8_Witness ==
  /\ SectionDone
  /\ NothingRecent(source[0], cutoff)
  /\ Len(source[0].chain) >= 1
  /\ source[0].chain[1].calls.rows # <<>>
  /\ source[0].chain[1].puts.rows # <<>>


\* ------------------------------------------------------------- C4
RECURSIVE RefVolume(_)
RefVolume(rows) ==
  IF rows = <<>> THEN 0
  ELSE RefVolume(SubSeq(rows, 1, Len(rows) - 1))
       + (IF rows[Len(rows)].volume = NaN THEN 0 ELSE rows[Len(rows)].volume.v)

\* The section's result read as a PCRResult; the no-recent-activity message
\* stands for totals of 0 and an undefined ratio.
TotalOf(t) == IF t = None THEN 0 ELSE t[1]

\* C4: computeRatio matches its reference.  For every pair of call and put
\* row sequences the section does not fail, its totals are the sums of the
\* volumes with an absent volume counted as 0, its ratio is put total over
\* call total when the call total is positive, and the ratio is undefined
\* exactly when the call total is 0.
C4_RatioReference ==
  SectionDone =>
    LET o == pcr_info[1]
        tc == RefVolume(calls_combined.rows)
        tp == RefVolume(puts_combined.rows)
    IN /\ o.msg # "Error"
       /\ TotalOf(o.total_call_vol) = tc /\ tc >= 0
       /\ TotalOf(o.total_put_vol) = tp /\ tp >= 0
       /\ tc > 0 => o.pcr_vol = Some([num |-> tp, den |-> tc])
       /\ (o.pcr_vol = None) <=> (tc = 0)

\* ------------------------------------------------------------- C1
\* The result a ticker gets from its own answers alone.
RefOutcome(td, c) ==
  LET n == Len(td.chain)
      tc == RefVolume(RefUnion(td.chain, n, "calls", c))
      tp == RefVolume(RefUnion(td.chain, n, "puts", c))
  IN [total_call_vol |-> tc, total_put_vol |-> tp,
      pcr_vol |-> IF tc > 0 THEN Some([num |-> tp, den |-> tc]) ELSE None]

BatchDone == pc = "return"

\* C1: Batch failure isolation.  The loop over the subplot tickers ends with
\* exactly one message per ticker, in order; a ticker whose expiration-list
\* request fails has the error message; and every ticker none of whose
\* whole-ticker requests (history, expiration list) fails has a result, the
\* one its own answers give whatever happened to the other tickers.
C1_FailureIsolation ==
  BatchDone =>
    /\ Len(subplot_pcr_info) = NumSub
    /\ \A j \in 1..NumSub :
         LET o == subplot_pcr_info[j]
             td == source[j]
         IN /\ o.ticker = subplot_tickers[j]
            /\ (td.history # "raise" /\ td.options_raises) => o.msg = "Error"
            /\ (td.history # "raise" /\ ~td.options_raises) =>
                 /\ o.msg # "Error"
                 /\ [total_call_vol |-> TotalOf(o.total_call_vol),
                     total_put_vol |-> TotalOf(o.total_put_vol),
                     pcr_vol |-> o.pcr_vol] = RefOutcome(td, Now0 - Hours)

\* ------------------------------------------------------------- C3
\* The pauses the run made: the log holds every call the run makes that
\* leaves the process or waits.
Pauses == Cardinality({n \in DOMAIN fetchLog : fetchLog[n].op = "sleep"})
FirstOf(j) ==
  CHOOSE n \in DOMAIN fetchLog :
    fetchLog[n].i = j /\ \A m \in DOMAIN fetchLog : fetchLog[m].i = j => n <= m

\* C3: Inter-ticker rate-limit delay.  Over the four subplot tickers exactly
\* three pauses are made, one before the first fetch of each ticker but the
\* first, after the last fetch of the ticker before it.
C3_InterTickerDelay ==
  BatchDone =>
    /\ Pauses = NumSub - 1
    /\ \A j \in 2..NumSub : fetchLog[FirstOf(j) - 1].op = "sleep"

\* ------------------------------------------------------------- C7
\* A step that starts a subplot ticker: its first request goes out.
StartsTicker == pc = "sub_history" /\ fetchLog' # fetchLog

\* C7: Cancellation between tickers.  Once an abort has been requested no
\* ticker that has not begun is started; the ticker in flight is left to
\* finish.
C7_Cancellation == [][abort_requested => ~StartsTicker]_vars

\* ------------------------------------------------------------- C9
Phase(j) ==
  IF j <= Len(subplot_pcr_info)
  THEN (IF subplot_pcr_info[j].msg = "Error" THEN "Failure" ELSE "Success")
  ELSE IF j = i /\ pc \in {"options", "expiry"} THEN "Fetching"
  ELSE IF j = i /\ pc = "compute" THEN "Aggregated"
  ELSE "Pending"

\* The moves of Pending -> Fetching -> (Aggregated -> Computed -> Success) |
\* (FetchFailed -> Failure) between the phases a state shows; Computed and
\* FetchFailed are passed inside one step.
PhaseMoves ==
  {<<"Pending", "Fetching">>, <<"Pending", "Failure">>,
   <<"Fetching", "Aggregated">>, <<"Fetching", "Failure">>,
   <<"Aggregated", "Success">>}

InBatch == i >= 1 /\ pc # "idle"

\* C9: Sequential single-pass processing.  The subplot tickers are handled
\* in list order without overlap, no request is made twice, each ticker
\* moves only along its state machine, and a message once appended stays.
C9_SinglePass ==
  /\ [](\A n, m \in DOMAIN fetchLog :
          /\ n < m => fetchLog[n].i <= fetchLog[m].i
          /\ n # m => fetchLog[n] # fetchLog[m])
  /\ [][(InBatch /\ pc' # "idle") =>
          \A j \in 1..NumSub :
            \/ Phase(j)' = Phase(j)
            \/ <<Phase(j), Phase(j)'>> \in PhaseMoves]_vars
  /\ [][(InBatch /\ pc' # "idle") =>
          \A j \in DOMAIN subplot_pcr_info :
            subplot_pcr_info'[j] = subplot_pcr_info[j]]_vars

\* ------------------------------------------------------------ C10
NoTickerGiven(c) == c.ticker_input = <<>> /\ c.ticker_dropdown \in {None, Some(<<>>)}
TickersDiffer(c) ==
  /\ c.ticker_input # <<>>
  /\ c.ticker_dropdown \notin {None, Some(<<>>)}
  /\ Normalise(c.ticker_input) # Normalise(c.ticker_dropdown[1])
NoMonths(c) == c.months_selected = None
Rejected(c) == NoTickerGiven(c) \/ TickersDiffer(c) \/ NoMonths(c)

\* C10: Input validation gates all fetching and preserves inputs.  After a
\* Go with no ticker, with two tickers that differ after trim and upper
\* casing, or with no month count, an error is shown, the content is empty
\* and no request went to the source; during and after every Go the three
\* inputs are the ones the callback was given; after a Reset they are empty
\* text, no ticker, no months, and the error and the content are cleared.
C10_ValidationGate ==
  /\ ctx.triggered = "go-button" =>
       /\ ui = <<ctx.ticker_input, ctx.ticker_dropdown, ctx.months_selected>>
       /\ Rejected(ctx) =>
            /\ pc = "idle"
            /\ error_message # ""
            /\ main_content = None
            /\ fetchLog = <<>>
  /\ ctx.triggered = "reset-button" =>
       /\ ui = <<<<>>, None, None>>
       /\ error_message = "" /\ main_content = None
       /\ pc = "idle"

\* A Go was rejected for tickers that differ although a month count was
\* chosen, with content from an earlier run replaced.
C10_Witness ==
  /\ ctx.triggered = "go-button"
  /\ TickersDiffer(ctx) /\ ~NoMonths(ctx)
  /\ error_message = "mismatch"
  /\ pc = "idle"

====
